---- MODULE Spec2Model ----
(***************************************************************************)
(* Contact-form submission pipeline of the corporate website backend:      *)
(* validation, CSRF format check, sliding-window rate limiting, consent    *)
(* gating, audit logging and the HTTP routes that wrap them.               *)
(*                                                                         *)
(* Strings are sequences of one-character strings.  JSON values are tagged *)
(* records (Str, Int, Bool, Null) and a missing dictionary key is Absent.  *)
(* Time is counted in whole minutes since the start of the run.            *)
(***************************************************************************)
EXTENDS Integers, Sequences, FiniteSets, TLC

VARIABLES
    now,            \* datetime.utcnow(), in minutes
    rate_limiter,   \* ContactFormHandler.rate_limiter of the shared handler
    audit,          \* records written by AuditLogger.log_event, in order
    store_calls,    \* records handed to store_contact_data, in order
    next_uuid,      \* number of uuid4() values drawn so far
    threads,        \* per worker thread: where it is in check_rate_limit, its locals
    limiter_log,    \* history: per identifier, the rate limiter's decisions in order
    served,         \* history: the requests the routes answered, in order
    calls,          \* history: number of operations performed
    last            \* history: the last operation, its input and its result

vars == <<now, rate_limiter, audit, store_calls, next_uuid, threads, limiter_log, served,
          calls, last>>

----------------------------------------------------------------------------
(* Bounds of the model *)

MaxTime == 2
MaxCalls == 1
NumThreads == 2

Threads == 1..NumThreads

----------------------------------------------------------------------------
(* JSON / Python values *)

Str(s) == [t |-> "str", s |-> s]
Num(n) == [t |-> "int", n |-> n]
Bool(b) == [t |-> "bool", b |-> b]
Null == [t |-> "null"]
Absent == [t |-> "absent"]

IsStr(v) == v.t = "str"

\* Python truthiness: bool(v), `if v`, `not v`
Truthy(v) ==
    CASE v.t = "str" -> Len(v.s) > 0
      [] v.t = "int" -> v.n # 0
      [] v.t = "bool" -> v.b
      [] OTHER -> FALSE

\* dict.get(key, default) on a form dictionary whose missing keys are Absent
Get(form, key, default) == IF form[key].t = "absent" THEN default ELSE form[key]

----------------------------------------------------------------------------
(* Characters *)

UpperChars == <<"A","B","C","D","E","F","G","H","I","J","K","L","M",
                "N","O","P","Q","R","S","T","U","V","W","X","Y","Z">>
LowerChars == <<"a","b","c","d","e","f","g","h","i","j","k","l","m",
                "n","o","p","q","r","s","t","u","v","w","x","y","z">>
DigitChars == <<"0","1","2","3","4","5","6","7","8","9">>

SeqRange(s) == {s[i] : i \in 1..Len(s)}
UpperSet == SeqRange(UpperChars)
LowerSet == SeqRange(LowerChars)
DigitSet == SeqRange(DigitChars)

\* re.IGNORECASE folding of one character
Lower(c) ==
    IF c \in UpperSet
    THEN LowerChars[CHOOSE i \in 1..Len(UpperChars) : UpperChars[i] = c]
    ELSE c

IsSpace(c) == c \in {" ", "\t", "\n", "\r", "\f"}   \* regex \s, str.strip()
IsAlnum(c) == c \in UpperSet \cup LowerSet \cup DigitSet   \* str.isalnum()
IsWord(c) == IsAlnum(c) \/ c = "_"                   \* regex \w

\* str.strip()
RECURSIVE LStrip(_)
LStrip(s) == IF Len(s) > 0 /\ IsSpace(s[1]) THEN LStrip(Tail(s)) ELSE s
RECURSIVE RStrip(_)
RStrip(s) ==
    IF Len(s) > 0 /\ IsSpace(s[Len(s)]) THEN RStrip(SubSeq(s, 1, Len(s) - 1)) ELSE s
Strip(s) == RStrip(LStrip(s))

\* the literal lit (lower case) occurs in s at position i, ignoring case
MatchAt(s, i, lit) ==
    /\ i + Len(lit) - 1 <= Len(s)
    /\ \A k \in 1..Len(lit) : Lower(s[i + k - 1]) = lit[k]

\* re.search(lit, s, re.IGNORECASE) for a literal pattern
Search(s, lit) == \E i \in 1..Len(s) : MatchAt(s, i, lit)

\* re.search(r'on\w+\s*=', s, re.IGNORECASE) matching at position i:
\* "on", one or more word characters up to j, whitespace, then "=" at k
EventHandlerAt(s, i) ==
    /\ MatchAt(s, i, <<"o", "n">>)
    /\ \E j \in (i + 2)..Len(s) :
          /\ \A m \in (i + 2)..j : IsWord(s[m])
          /\ \E k \in (j + 1)..Len(s) :
                /\ s[k] = "="
                /\ \A m \in (j + 1)..(k - 1) : IsSpace(s[m])

SearchEventHandler(s) == \E i \in 1..Len(s) : EventHandlerAt(s, i)

----------------------------------------------------------------------------
(* String literals used by the code *)

S_script == <<"<", "s", "c", "r", "i", "p", "t">>
S_javascript == <<"j", "a", "v", "a", "s", "c", "r", "i", "p", "t", ":">>
S_data == <<"d", "a", "t", "a", ":">>
S_unknown == <<"u", "n", "k", "n", "o", "w", "n">>

----------------------------------------------------------------------------
(* ContactFormData.validate *)

NameMaxLen == 100
EmailMaxLen == 255
MessageMaxLen == 5000

\* [^\s@]+ over the whole of s[a..b]
LocalPart(s, a, b) == a <= b /\ \A m \in a..b : ~IsSpace(s[m]) /\ s[m] # "@"

\* ^[^\s@]+@[^\s@]+\.[^\s@]+ consuming the whole of s
EmailCore(s) ==
    \E a \in 2..Len(s) :
        /\ s[a] = "@"
        /\ LocalPart(s, 1, a - 1)
        /\ \E d \in (a + 2)..(Len(s) - 1) :
              /\ s[d] = "."
              /\ LocalPart(s, a + 1, d - 1)
              /\ LocalPart(s, d + 1, Len(s))

\* re.match(r'^[^\s@]+@[^\s@]+\.[^\s@]+$', s): $ also matches before a final newline
email_pattern(s) ==
    \/ EmailCore(s)
    \/ Len(s) > 0 /\ s[Len(s)] = "\n" /\ EmailCore(SubSeq(s, 1, Len(s) - 1))

\* any of dangerous_patterns is found in the field
dangerous_patterns(s) ==
    \/ Search(s, S_script)
    \/ Search(s, S_javascript)
    \/ SearchEventHandler(s)
    \/ Search(s, S_data)

\* the message of the ValueError validate raises on the record, or "ok"
validate(rec) ==
    IF ~IsStr(rec.name) \/ Len(rec.name.s) > NameMaxLen THEN "Invalid name field"
    ELSE IF ~IsStr(rec.email) \/ Len(rec.email.s) > EmailMaxLen THEN "Invalid email field"
    ELSE IF ~IsStr(rec.message) \/ Len(rec.message.s) > MessageMaxLen
         THEN "Invalid message field"
    ELSE IF ~email_pattern(rec.email.s) THEN "Invalid email format"
    ELSE IF \E f \in {rec.name.s, rec.email.s, rec.message.s} : dangerous_patterns(f)
         THEN "Invalid input detected"
    ELSE "ok"

\* a plausible slip: the dataclass constructed without its validation hook
post_init_unchecked(rec) == "ok"

\* ContactFormData.__post_init__: constructing the record validates it
post_init(rec) == validate(rec)

----------------------------------------------------------------------------
(* AuditLogger, hashing, user agent, CSRF *)

\* the audit entry log_event writes; id is the uuid drawn for it
log_event(event_type, event_data, id, t) ==
    [id |-> id, timestamp |-> t, event_type |-> event_type,
     user_id |-> Null, event_data |-> event_data]

\* salted SHA-256 of the address, kept symbolic: the digest of the salted text
hash_ip_address(ip_address) ==
    [sha256 |-> ip_address \o "corporate_website_salt_2025"]

UserAgentMaxLen == 200

sanitize_user_agent(user_agent) ==
    IF Len(user_agent) = 0 THEN S_unknown
    ELSE SubSeq(user_agent, 1, IF Len(user_agent) < UserAgentMaxLen
                                THEN Len(user_agent) ELSE UserAgentMaxLen)

CsrfTokenLen == 32

\* a plausible slip: the token length of another deployment
validate_csrf_token_len64(token) ==
    IF ~Truthy(token) THEN "false"
    ELSE IF ~IsStr(token) THEN "TypeError"
    ELSE IF Len(token.s) = 2 * CsrfTokenLen /\ \A i \in 1..Len(token.s) : IsAlnum(token.s[i])
         THEN "true"
    ELSE "false"

\* what `token and len(token) == 32 and token.isalnum()` does:
\* "true", "false" (falsy result), or the exception it raises
validate_csrf_token(token) ==
    IF ~Truthy(token) THEN "false"
    ELSE IF ~IsStr(token) THEN "TypeError"       \* len() of a number
    ELSE IF Len(token.s) = CsrfTokenLen /\ \A i \in 1..Len(token.s) : IsAlnum(token.s[i])
         THEN "true"
    ELSE "false"

----------------------------------------------------------------------------
(* ContactFormHandler.check_rate_limit *)

MaxRequests == 5
WindowMinutes == 5

EmptyDict == [k \in {} |-> <<>>]
DictGet(d, k) == IF k \in DOMAIN d THEN d[k] ELSE <<>>
DictSet(d, k, v) == [x \in (DOMAIN d) \cup {k} |-> IF x = k THEN v ELSE d[x]]

\* a plausible slip: the window closed at its start (>= for >)
RECURSIVE Prune_inclusive(_, _)
Prune_inclusive(requests, window_start) ==
    IF requests = <<>> THEN <<>>
    ELSE IF Head(requests) >= window_start
         THEN <<Head(requests)>> \o Prune_inclusive(Tail(requests), window_start)
         ELSE Prune_inclusive(Tail(requests), window_start)

\* [req_time for req_time in requests if req_time > window_start]
RECURSIVE Prune(_, _)
Prune(requests, window_start) ==
    IF requests = <<>> THEN <<>>
    ELSE IF Head(requests) > window_start
         THEN <<Head(requests)>> \o Prune(Tail(requests), window_start)
         ELSE Prune(Tail(requests), window_start)

\* a plausible slip: the stored list counted before it is pruned
check_rate_limit_count_before_prune(rl, ip_hash, t) ==
    LET window_start == t - WindowMinutes
        requests == Prune(DictGet(rl, ip_hash), window_start)
    IN  IF Len(DictGet(rl, ip_hash)) >= MaxRequests
        THEN [allowed |-> FALSE, rl |-> rl]
        ELSE [allowed |-> TRUE, rl |-> DictSet(rl, ip_hash, Append(requests, t))]

\* a plausible slip: the limit compared with > for >=
check_rate_limit_off_by_one(rl, ip_hash, t) ==
    LET window_start == t - WindowMinutes
        requests == Prune(DictGet(rl, ip_hash), window_start)
    IN  IF Len(requests) > MaxRequests
        THEN [allowed |-> FALSE, rl |-> rl]
        ELSE [allowed |-> TRUE, rl |-> DictSet(rl, ip_hash, Append(requests, t))]

\* a plausible slip: the attempt recorded before the limit is tested
check_rate_limit_records_rejected(rl, ip_hash, t) ==
    LET window_start == t - WindowMinutes
        requests == Prune(DictGet(rl, ip_hash), window_start)
        recorded == DictSet(rl, ip_hash, Append(requests, t))
    IN  IF Len(requests) >= MaxRequests
        THEN [allowed |-> FALSE, rl |-> recorded]
        ELSE [allowed |-> TRUE, rl |-> recorded]

\* the returned value and the rate_limiter mapping after the call at time t
check_rate_limit(rl, ip_hash, t) ==
    LET window_start == t - WindowMinutes
        requests == Prune(DictGet(rl, ip_hash), window_start)
    IN  IF Len(requests) >= MaxRequests
        THEN [allowed |-> FALSE, rl |-> rl]
        ELSE [allowed |-> TRUE, rl |-> DictSet(rl, ip_hash, Append(requests, t))]

----------------------------------------------------------------------------
(* DataRetentionManager *)

MinutesPerDay == 24 * 60
RETENTION_POLICIES ==
    [contact_forms |-> 5 * 365 * MinutesPerDay,
     audit_logs |-> 7 * 365 * MinutesPerDay,
     user_sessions |-> 30 * MinutesPerDay]

\* a plausible slip: a class without policy falls back to the longest policy
get_expiry_date_fallback(data_type, created_at) ==
    IF data_type \in DOMAIN RETENTION_POLICIES
    THEN Num(created_at + RETENTION_POLICIES[data_type])
    ELSE Num(created_at + RETENTION_POLICIES["audit_logs"])

get_expiry_date(data_type, created_at) ==
    IF data_type \in DOMAIN RETENTION_POLICIES
    THEN Num(created_at + RETENTION_POLICIES[data_type])
    ELSE Null

\* a plausible slip: data still retained at the expiry instant (<= for <)
should_retain_inclusive(data_type, created_at, t) ==
    IF data_type \notin DOMAIN RETENTION_POLICIES THEN FALSE
    ELSE IF RETENTION_POLICIES[data_type] = 0 THEN FALSE
    ELSE t <= created_at + RETENTION_POLICIES[data_type]

\* should_retain called at time t (datetime.utcnow())
should_retain(data_type, created_at, t) ==
    IF data_type \notin DOMAIN RETENTION_POLICIES THEN FALSE
    ELSE IF RETENTION_POLICIES[data_type] = 0 THEN FALSE       \* not retention_period
    ELSE t < created_at + RETENTION_POLICIES[data_type]

----------------------------------------------------------------------------
(* ContactFormHandler.process_submission *)

MsgThanks == "Thank you for your message. We will get back to you soon."
MsgInvalid == "Invalid form data. Please check your input and try again."
MsgError == "An error occurred. Please try again later."

\* form_data.get(key, '').strip(): the stripped string; a value without
\* .strip() (number, null, boolean) is returned as it is and raises
StripField(form, key) ==
    LET v == Get(form, key, Str(<<>>))
    IN  IF IsStr(v) THEN Str(Strip(v.s)) ELSE v

\* store_contact_data: the record is handed over and a fresh uuid returned
store_contact_data(contact_data, id) == [uuid |-> id]

\* a plausible slip: the record validated before the rate limiter is asked
TryBlock_validate_first(rl, form_data, ip_hash, user_agent, csrf_token, t) ==
    LET csrf == validate_csrf_token(csrf_token)
        limit == check_rate_limit(rl, ip_hash, t)
        name == StripField(form_data, "name")
        email == StripField(form_data, "email")
        message == StripField(form_data, "message")
        contact_data ==
            [name |-> name, email |-> email, message |-> message,
             timestamp |-> t,
             consent_given |-> Get(form_data, "consent_given", Bool(FALSE)),
             ip_address_hash |-> ip_hash,
             user_agent |-> sanitize_user_agent(user_agent)]
        Leave(exc, why, l, asked) ==
            [exc |-> exc, why |-> why, rl |-> l, limiter |-> asked,
             contact_data |-> contact_data]
    IN  IF csrf = "TypeError" THEN Leave("TypeError", "csrf", rl, "skipped")
        ELSE IF csrf = "false"
             THEN Leave("ValueError", "Invalid CSRF token", rl, "skipped")
        ELSE IF ~IsStr(name) \/ ~IsStr(email) \/ ~IsStr(message)
             THEN Leave("AttributeError", "strip", rl, "skipped")
        ELSE IF post_init(contact_data) # "ok"
             THEN Leave("ValueError", post_init(contact_data), rl, "skipped")
        ELSE IF ~limit.allowed
             THEN Leave("ValueError", "Rate limit exceeded", limit.rl, "rejected")
        ELSE IF ~Truthy(contact_data.consent_given)
             THEN Leave("ValueError", "Consent required for data processing",
                        limit.rl, "allowed")
        ELSE Leave("none", "", limit.rl, "allowed")

\* The body of the try block: the exception that leaves it ("none" when it
\* runs to the end), the rate_limiter mapping it leaves behind, whether the
\* rate limiter was asked, and the record it built.
TryBlock(rl, form_data, ip_hash, user_agent, csrf_token, t) ==
    LET csrf == validate_csrf_token(csrf_token)
        limit == check_rate_limit(rl, ip_hash, t)
        name == StripField(form_data, "name")
        email == StripField(form_data, "email")
        message == StripField(form_data, "message")
        contact_data ==
            [name |-> name, email |-> email, message |-> message,
             timestamp |-> t,
             consent_given |-> Get(form_data, "consent_given", Bool(FALSE)),
             ip_address_hash |-> ip_hash,
             user_agent |-> sanitize_user_agent(user_agent)]
        Leave(exc, why, l, asked) ==
            [exc |-> exc, why |-> why, rl |-> l, limiter |-> asked,
             contact_data |-> contact_data]
    IN  IF csrf = "TypeError" THEN Leave("TypeError", "csrf", rl, "skipped")
        ELSE IF csrf = "false"
             THEN Leave("ValueError", "Invalid CSRF token", rl, "skipped")
        ELSE IF ~limit.allowed
             THEN Leave("ValueError", "Rate limit exceeded", limit.rl, "rejected")
        ELSE IF ~IsStr(name) \/ ~IsStr(email) \/ ~IsStr(message)
             THEN Leave("AttributeError", "strip", limit.rl, "allowed")
        ELSE IF post_init(contact_data) # "ok"
             THEN Leave("ValueError", post_init(contact_data), limit.rl, "allowed")
        ELSE IF ~Truthy(contact_data.consent_given)
             THEN Leave("ValueError", "Consent required for data processing",
                        limit.rl, "allowed")
        ELSE Leave("none", "", limit.rl, "allowed")

\* a plausible slip: the handler reports a validation failure as an internal error
OnValueError_wrong_message(ip_hash, exc, id, t) ==
    [result |-> [success |-> FALSE, error |-> MsgError],
     events |-> <<log_event("contact_form_validation_error",
                            [ip_hash |-> ip_hash, error_type |-> exc], id, t)>>]

\* except ValueError: one audit entry and the generic validation answer
OnValueError(ip_hash, exc, id, t) ==
    [result |-> [success |-> FALSE, error |-> MsgInvalid],
     events |-> <<log_event("contact_form_validation_error",
                            [ip_hash |-> ip_hash, error_type |-> exc], id, t)>>]

\* a plausible slip: the exception's own text handed back to the caller
OnException_exception_text(ip_hash, exc, id, t) ==
    [result |-> [success |-> FALSE, error |-> exc],
     events |-> <<log_event("contact_form_error",
                            [ip_hash |-> ip_hash, error_type |-> exc], id, t)>>]

\* except Exception: one audit entry and the generic failure answer
OnException(ip_hash, exc, id, t) ==
    [result |-> [success |-> FALSE, error |-> MsgError],
     events |-> <<log_event("contact_form_error",
                            [ip_hash |-> ip_hash, error_type |-> exc], id, t)>>]

\* a plausible slip: the expiry of another class in the success entry
OnSuccess_audit_logs_expiry(ip_hash, submission_id, id, t) ==
    [result |-> [success |-> TRUE, submission_id |-> submission_id,
                 message |-> MsgThanks],
     events |-> <<log_event("contact_form_success",
                            [submission_id |-> submission_id,
                             ip_hash |-> ip_hash,
                             data_retention_expiry |->
                                 get_expiry_date("audit_logs", t)],
                            id, t)>>]

\* the end of the try block: the success entry and the success answer
OnSuccess(ip_hash, submission_id, id, t) ==
    [result |-> [success |-> TRUE, submission_id |-> submission_id,
                 message |-> MsgThanks],
     events |-> <<log_event("contact_form_success",
                            [submission_id |-> submission_id,
                             ip_hash |-> ip_hash,
                             data_retention_expiry |->
                                 get_expiry_date("contact_forms", t)],
                            id, t)>>]

\* The whole call at time t, uuid0 uuids having been drawn before it: the
\* returned dictionary, the audit entries written in order, the records handed
\* to the store, the rate_limiter mapping afterwards, the uuids drawn.
process_submission(rl, form_data, ip_address, user_agent, csrf_token, t, uuid0) ==
    LET ip_hash == hash_ip_address(ip_address)
        attempt ==
            log_event("contact_form_attempt",
                      [ip_hash |-> ip_hash,
                       user_agent |-> sanitize_user_agent(user_agent),
                       has_csrf_token |-> Truthy(csrf_token)],
                      uuid0 + 1, t)
        body == TryBlock(rl, form_data, ip_hash, user_agent, csrf_token, t)
        submission_id == store_contact_data(body.contact_data, uuid0 + 2)
        end == IF body.exc = "none" THEN OnSuccess(ip_hash, submission_id, uuid0 + 3, t)
               ELSE IF body.exc = "ValueError"
                    THEN OnValueError(ip_hash, body.exc, uuid0 + 2, t)
               ELSE OnException(ip_hash, body.exc, uuid0 + 2, t)
    IN  [result |-> end.result,
         events |-> <<attempt>> \o end.events,
         stored |-> IF body.exc = "none"
                    THEN <<[id |-> submission_id, data |-> body.contact_data]>>
                    ELSE <<>>,
         rl |-> body.rl,
         limiter |-> body.limiter,
         uuids |-> IF body.exc = "none" THEN 3 ELSE 2]

----------------------------------------------------------------------------
(* Inputs *)

\* the string of n characters c
Chars(c, n) == SubSeq([i \in 1..n |-> c], 1, n)

S_John == <<"J", "o", "h", "n">>
S_JohnPadded == <<" ", "J", "o", "h", "n", " ">>
S_Hi == <<"H", "i">>
S_john_email ==
    <<"j", "o", "h", "n", "@", "e", "x", "a", "m", "p", "l", "e", ".", "c", "o", "m">>
S_invalid_email ==
    <<"i", "n", "v", "a", "l", "i", "d", "-", "e", "m", "a", "i", "l", "-",
      "f", "o", "r", "m", "a", "t">>
S_email_nodot == <<"a", "@", "b">>
S_email_data ==
    <<"j", "o", "h", "n", "@", "d", "a", "t", "a", ":", "x", ".", "c", "o", "m">>
S_script_tag == <<"<", "S", "c", "r", "i", "p", "t", ">">>
S_js_alert == <<"J", "a", "v", "a", "S", "c", "r", "i", "p", "t", ":", "x">>
S_onclick == <<"o", "n", "c", "l", "i", "c", "k", " ", "=", "x">>
S_money == <<"m", "o", "n", "e", "y", "=", "5">>
S_on_eq == <<"o", "n", "=", "1">>
S_false == <<"f", "a", "l", "s", "e">>
S_yes == <<"y", "e", "s">>
S_Mozilla == <<"M", "o", "z", "i", "l", "l", "a", "/", "5", ".", "0">>
S_token32 ==
    <<"a", "1", "b", "2", "c", "3", "d", "4", "e", "5", "f", "6", "g", "7", "h", "8",
      "i", "9", "j", "0", "k", "1", "l", "2", "m", "3", "n", "4", "o", "5", "p", "6">>
S_token16 ==
    <<"a", "1", "b", "2", "c", "3", "d", "4", "e", "5", "f", "6", "g", "7", "h", "8">>
S_token32bang == SubSeq(S_token32, 1, 31) \o <<"!">>

S_vbscript_msgbox == <<"v", "b", "s", "c", "r", "i", "p", "t", ":", "m", "s", "g">>
S_sql_tautology == <<"1", "'", " ", "O", "R", " ", "'", "1", "'", "=", "'", "1">>
S_shell_command == <<"l", "s", ";", "i", "d">>

\* an e-mail address of n characters that has the required shape
LongEmail(n) == Chars("a", n - 6) \o <<"@", "b", ".", "c", "o", "m">>

Ip1 == "192.168.1.1"
Ip2 == "10.0.0.2"

ValidForm ==
    [name |-> Str(S_John), email |-> Str(S_john_email), message |-> Str(S_Hi),
     consent_given |-> Bool(TRUE), consent |-> Absent]

ValidRequest ==
    [form |-> ValidForm, ip_address |-> Ip1, user_agent |-> S_Mozilla,
     csrf_token |-> Str(S_token32)]

Names ==
    {Str(S_John), Absent, Str(S_JohnPadded), Str(Chars("a", NameMaxLen)),
     Str(Chars("a", NameMaxLen + 1)), Str(S_script_tag), Num(5), Null}
Emails ==
    {Str(S_john_email), Absent, Str(S_invalid_email), Str(S_email_nodot),
     Str(S_email_data), Str(LongEmail(EmailMaxLen)), Str(LongEmail(EmailMaxLen + 1)),
     Num(5)}
Messages ==
    {Str(S_Hi), Absent, Str(<<" ">>), Str(Chars("a", MessageMaxLen)),
     Str(Chars("a", MessageMaxLen + 1)), Str(S_js_alert), Str(S_onclick),
     Str(S_money), Str(S_on_eq), Null, Str(S_vbscript_msgbox), Str(S_sql_tautology),
     Str(S_shell_command)}
Consents ==
    {Bool(TRUE), Bool(FALSE), Absent, Null, Str(S_false), Str(S_yes), Str(<<>>),
     Num(1), Num(0)}
CsrfTokens ==
    {Str(S_token32), Str(<<>>), Str(S_token16), Str(S_token32bang), Null, Num(7)}
UserAgents == {S_Mozilla, <<>>, Chars("x", UserAgentMaxLen + 1)}

\* requests that differ from the valid one in one field, and in two
Requests ==
    {[ValidRequest EXCEPT !.form.name = v] : v \in Names}
    \cup {[ValidRequest EXCEPT !.form.email = v] : v \in Emails}
    \cup {[ValidRequest EXCEPT !.form.message = v] : v \in Messages}
    \cup {[ValidRequest EXCEPT !.form.consent_given = v] : v \in Consents}
    \cup {[ValidRequest EXCEPT !.form.consent_given = Absent, !.form.consent = Bool(TRUE)]}
    \cup {[ValidRequest EXCEPT !.form.email = Str(S_invalid_email),
                               !.form.consent_given = v] : v \in Consents}
    \cup {[ValidRequest EXCEPT !.csrf_token = v] : v \in CsrfTokens}
    \cup {[ValidRequest EXCEPT !.user_agent = v] : v \in UserAgents}
    \cup {[ValidRequest EXCEPT !.ip_address = Ip2]}

----------------------------------------------------------------------------
(* The handler called directly: ContactFormHandler().process_submission(...) *)

Init ==
    /\ now = 0
    /\ rate_limiter = EmptyDict
    /\ audit = <<>>
    /\ store_calls = <<>>
    /\ next_uuid = 0
    /\ threads = [p \in Threads |-> [pc |-> "idle"]]
    /\ limiter_log = EmptyDict
    /\ served = <<>>
    /\ calls = 0
    /\ last = [op |-> "none"]

\* time passes, up to max_time
TickTo(max_time) ==
    /\ now < max_time
    /\ now' = now + 1
    /\ UNCHANGED <<rate_limiter, audit, store_calls, next_uuid, threads, limiter_log,
                   served, calls, last>>

Tick == TickTo(MaxTime)

\* the decision taken at time t for identifier id, added to the history
Logged(log, id, t, allowed) ==
    DictSet(log, id, Append(DictGet(log, id), [time |-> t, allowed |-> allowed]))

Submit(req, max_calls) ==
    LET r == process_submission(rate_limiter, req.form, req.ip_address,
                                req.user_agent, req.csrf_token, now, next_uuid)
        id == hash_ip_address(req.ip_address)
    IN  /\ calls < max_calls
        /\ rate_limiter' = r.rl
        /\ audit' = audit \o r.events
        /\ store_calls' = store_calls \o r.stored
        /\ next_uuid' = next_uuid + r.uuids
        /\ limiter_log' = IF r.limiter = "skipped" THEN limiter_log
                          ELSE Logged(limiter_log, id, now, r.limiter = "allowed")
        /\ calls' = calls + 1
        /\ last' = [op |-> "process_submission", req |-> req, result |-> r.result,
                    limiter |-> r.limiter, time |-> now,
                    audit_before |-> Len(audit),
                    store_before |-> Len(store_calls),
                    rl_before |-> rate_limiter]
        /\ UNCHANGED <<now, threads, served>>

ProcessSubmission == \E req \in Requests : Submit(req, MaxCalls)

Next == Tick \/ ProcessSubmission

Spec == Init /\ [][Next]_vars

----------------------------------------------------------------------------
(* Properties of process_submission called directly *)

\* the record process_submission builds from the form: fields stripped
FormRecord(form) ==
    [name |-> StripField(form, "name"), email |-> StripField(form, "email"),
     message |-> StripField(form, "message")]

Called == last.op = "process_submission"
StoreInvoked == Len(store_calls) > last.store_before
NewEvents == SubSeq(audit, last.audit_before + 1, Len(audit))

\* C1: a submission whose record fails any ContactFormData.validate check
\* (type, length bounds, e-mail format, dangerous patterns) never reaches
\* store_contact_data and is answered with success = false.
C1_InvalidRecordNeverStored ==
    (Called /\ validate(FormRecord(last.req.form)) # "ok")
        => (~StoreInvoked /\ last.result.success = FALSE)

\* a submission that fails only the validation step (CSRF, rate limit and
\* consent are fine) has been processed and nothing was stored
C1_Witness ==
    /\ Called
    /\ validate_csrf_token(last.req.csrf_token) = "true"
    /\ last.limiter = "allowed"
    /\ last.req.form.consent_given = Bool(TRUE)
    /\ validate(FormRecord(last.req.form)) = "Invalid input detected"
    /\ ~StoreInvoked

\* C2 (as claimed): the store is reached only when consent_given is the boolean
\* true; any other value gives no store call, success = false and a
\* validation_error audit entry.
C2_OnlyBooleanTrueConsentStored ==
    (Called /\ last.req.form.consent_given # Bool(TRUE))
        => /\ ~StoreInvoked
           /\ last.result.success = FALSE
           /\ \E i \in 1..Len(NewEvents) :
                 NewEvents[i].event_type = "contact_form_validation_error"

----------------------------------------------------------------------------
(* A burst of submissions to one handler within the same minute, long      *)
(* enough to exhaust the limit                                             *)

MaxBurst == 6

\* one request for each way process_submission can end
BurstRequests ==
    {ValidRequest,
     [ValidRequest EXCEPT !.csrf_token = Str(<<>>)],
     [ValidRequest EXCEPT !.form.email = Str(S_invalid_email)],
     [ValidRequest EXCEPT !.form.consent_given = Bool(FALSE)],
     [ValidRequest EXCEPT !.form.name = Num(5)]}

BurstSubmission == \E req \in BurstRequests : Submit(req, MaxBurst)

SpecBurst == Init /\ [][BurstSubmission]_vars

\* C10: every process_submission call that returns has written exactly one
\* attempt entry followed by exactly one outcome entry, and the outcome entry
\* matches the answer: success entry iff success = true, validation_error
\* entry iff the generic invalid-form-data answer, error entry iff the generic
\* an-error-occurred answer.
C10_OneAttemptOneOutcome ==
    Called =>
        /\ Len(NewEvents) = 2
        /\ NewEvents[1].event_type = "contact_form_attempt"
        /\ NewEvents[2].event_type \in
               {"contact_form_success", "contact_form_validation_error",
                "contact_form_error"}
        /\ (NewEvents[2].event_type = "contact_form_success")
               <=> (last.result.success = TRUE)
        /\ (NewEvents[2].event_type = "contact_form_validation_error")
               <=> (last.result = [success |-> FALSE, error |-> MsgInvalid])
        /\ (NewEvents[2].event_type = "contact_form_error")
               <=> (last.result = [success |-> FALSE, error |-> MsgError])

\* the sixth submission of a burst has been turned away by the rate limiter
\* and both of its entries are in the log
C10_Witness ==
    /\ Called
    /\ last.limiter = "rejected"
    /\ Len(NewEvents) = 2
    /\ NewEvents[2].event_type = "contact_form_validation_error"

----------------------------------------------------------------------------
(* The rate limiter called directly: handler.check_rate_limit(ip_hash) *)

MaxRateTime == 6
MaxRateCalls == 7

Identifiers == {hash_ip_address(Ip1), hash_ip_address(Ip2)}

CheckRateLimit(id) ==
    LET r == check_rate_limit(rate_limiter, id, now)
    IN  /\ calls < MaxRateCalls
        /\ rate_limiter' = r.rl
        /\ limiter_log' = Logged(limiter_log, id, now, r.allowed)
        /\ calls' = calls + 1
        /\ last' = [op |-> "check_rate_limit", id |-> id, time |-> now,
                    allowed |-> r.allowed, rl_before |-> rate_limiter,
                    log_before |-> DictGet(limiter_log, id)]
        /\ UNCHANGED <<now, audit, store_calls, next_uuid, threads, served>>

RateCall == \E id \in Identifiers : CheckRateLimit(id)

RateTick == TickTo(MaxRateTime)

NextRate == RateTick \/ RateCall

SpecRate == Init /\ [][NextRate]_vars

\* how many calls the history log shows admitted in the window (t - 5 min, t]
AdmittedIn(log, t) ==
    Cardinality({i \in 1..Len(log) :
                    log[i].allowed /\ log[i].time > t - WindowMinutes /\ log[i].time <= t})

Checked == last.op = "check_rate_limit"

\* C4: after any sequence of sequential calls, for every identifier and every
\* instant t at most 5 admitted calls lie in (t - 5 min, t], and a call is
\* rejected only when exactly 5 earlier admitted calls of its identifier lie
\* in the window ending at the call.
C4_SlidingWindowExact ==
    /\ \A id \in DOMAIN limiter_log : \A t \in 0..now :
          AdmittedIn(limiter_log[id], t) <= MaxRequests
    /\ (Checked /\ ~last.allowed)
          => AdmittedIn(last.log_before, last.time) = MaxRequests

\* a call was rejected while its identifier also has admitted calls that
\* have already left the window (the count is the window's, not the total's)
C4_Witness ==
    /\ Checked
    /\ ~last.allowed
    /\ AdmittedIn(last.log_before, last.time) = MaxRequests
    /\ \E i \in 1..Len(last.log_before) :
          last.log_before[i].allowed
          /\ last.log_before[i].time <= last.time - WindowMinutes

\* C5: for one identifier the first 5 calls return true, a further call while
\* 5 admitted calls are inside the window returns false, and once the window
\* of the earlier admitted calls has passed a later call returns true again.
C5_FiveThenRejectThenRecover ==
    Checked =>
        LET admitted_before ==
                {i \in 1..Len(last.log_before) : last.log_before[i].allowed}
            inside == {i \in admitted_before :
                          last.log_before[i].time > last.time - WindowMinutes}
        IN  /\ Len(last.log_before) < MaxRequests => last.allowed
            /\ Cardinality(inside) = MaxRequests => ~last.allowed
            /\ inside = {} => last.allowed

\* an identifier that was rejected is admitted again after its window passed
C5_Witness ==
    /\ Checked
    /\ last.allowed
    /\ \E i \in 1..Len(last.log_before) : ~last.log_before[i].allowed
    /\ \A i \in 1..Len(last.log_before) :
          last.log_before[i].time <= last.time - WindowMinutes

\* C6: a call that returns false leaves the rate_limiter mapping as it was.
C6_RejectedCallRecordsNothing ==
    (Checked /\ ~last.allowed) => rate_limiter = last.rl_before

C6_Witness ==
    /\ Checked
    /\ ~last.allowed
    /\ rate_limiter = last.rl_before
    /\ Len(rate_limiter[last.id]) = MaxRequests

----------------------------------------------------------------------------
(* check_rate_limit run by the worker threads that share contact_handler.  *)
(* Nothing in the method is locked, so a thread can be preempted between   *)
(* reading the stored list, testing its length, and writing the list back. *)

MaxConcTime == 1
MaxConcCalls == 6

\* lines 154-158: take the time, read the identifier's stored list
ThreadRead(p, id) ==
    /\ threads[p].pc = "idle"
    /\ calls < MaxConcCalls
    /\ threads' = [threads EXCEPT ![p] =
                      [pc |-> "read", id |-> id, now |-> now,
                       requests |-> DictGet(rate_limiter, id)]]
    /\ calls' = calls + 1
    /\ UNCHANGED <<now, rate_limiter, audit, store_calls, next_uuid, limiter_log,
                   served, last>>

\* lines 161-165: prune the local copy, test the limit, return False if reached
ThreadCheck(p) ==
    LET th == threads[p]
        requests == Prune(th.requests, th.now - WindowMinutes)
    IN  /\ th.pc = "read"
        /\ IF Len(requests) >= MaxRequests
           THEN /\ threads' = [threads EXCEPT ![p] = [pc |-> "idle"]]
                /\ limiter_log' = Logged(limiter_log, th.id, th.now, FALSE)
                /\ last' = [op |-> "check_rate_limit", id |-> th.id, time |-> th.now,
                            allowed |-> FALSE, rl_before |-> rate_limiter,
                            log_before |-> DictGet(limiter_log, th.id)]
           ELSE /\ threads' = [threads EXCEPT ![p] =
                                  [th EXCEPT !.pc = "append", !.requests = requests]]
                /\ UNCHANGED <<limiter_log, last>>
        /\ UNCHANGED <<now, rate_limiter, audit, store_calls, next_uuid, served, calls>>

\* a plausible slip: one list kept for all identifiers
ThreadWrite_one_list(p) ==
    LET th == threads[p]
    IN  /\ th.pc = "append"
        /\ rate_limiter' = [id \in Identifiers |-> Append(th.requests, th.now)]
        /\ threads' = [threads EXCEPT ![p] = [pc |-> "idle"]]
        /\ limiter_log' = Logged(limiter_log, th.id, th.now, TRUE)
        /\ last' = [op |-> "check_rate_limit", id |-> th.id, time |-> th.now,
                    allowed |-> TRUE, rl_before |-> rate_limiter,
                    log_before |-> DictGet(limiter_log, th.id)]
        /\ UNCHANGED <<now, audit, store_calls, next_uuid, served, calls>>

\* lines 168-171: append the time, store the list, return True
ThreadWrite(p) ==
    LET th == threads[p]
    IN  /\ th.pc = "append"
        /\ rate_limiter' = DictSet(rate_limiter, th.id, Append(th.requests, th.now))
        /\ threads' = [threads EXCEPT ![p] = [pc |-> "idle"]]
        /\ limiter_log' = Logged(limiter_log, th.id, th.now, TRUE)
        /\ last' = [op |-> "check_rate_limit", id |-> th.id, time |-> th.now,
                    allowed |-> TRUE, rl_before |-> rate_limiter,
                    log_before |-> DictGet(limiter_log, th.id)]
        /\ UNCHANGED <<now, audit, store_calls, next_uuid, served, calls>>

ConcTick == TickTo(MaxConcTime)

NextConc ==
    \/ ConcTick
    \/ \E p \in Threads : \E id \in Identifiers : ThreadRead(p, id)
    \/ \E p \in Threads : ThreadCheck(p)
    \/ \E p \in Threads : ThreadWrite(p)

SpecConc == Init /\ [][NextConc]_vars

\* C7 (as claimed): under every interleaving of concurrent calls on the shared
\* handler, the calls admitted for one identifier within one window never
\* exceed max_requests.
C7_ConcurrentCallsWithinLimit ==
    \A id \in DOMAIN limiter_log : \A t \in 0..now :
        AdmittedIn(limiter_log[id], t) <= MaxRequests

----------------------------------------------------------------------------
(* backend/api/contact.py: the request model ContactFormData *)

S_script_close == <<"<", "/", "s", "c", "r", "i", "p", "t", ">">>
S_vbscript == <<"v", "b", "s", "c", "r", "i", "p", "t", ":">>
S_on == <<"o", "n">>

SetMin(S) == CHOOSE x \in S : \A y \in S : x <= y

\* Where the match of a pattern that starts at position i of s ends, 0 when
\* the pattern does not match there (flags re.IGNORECASE | re.DOTALL).
MatchEnd(pattern, s, i) ==
    CASE pattern = "script_block" ->          \* <script[^>]*>.*?</script>
            IF ~MatchAt(s, i, S_script) THEN 0
            ELSE LET gts == {j \in (i + Len(S_script))..Len(s) : s[j] = ">"}
                 IN  IF gts = {} THEN 0
                     ELSE LET closes == {k \in (SetMin(gts) + 1)..Len(s) :
                                            MatchAt(s, k, S_script_close)}
                          IN  IF closes = {} THEN 0
                              ELSE SetMin(closes) + Len(S_script_close) - 1
      [] pattern = "javascript" ->            \* javascript:
            IF MatchAt(s, i, S_javascript) THEN i + Len(S_javascript) - 1 ELSE 0
      [] pattern = "vbscript" ->              \* vbscript:
            IF MatchAt(s, i, S_vbscript) THEN i + Len(S_vbscript) - 1 ELSE 0
      [] pattern = "data" ->                  \* data:
            IF MatchAt(s, i, S_data) THEN i + Len(S_data) - 1 ELSE 0
      [] pattern = "event_handler" ->         \* on\w+\s*=
            IF ~MatchAt(s, i, S_on) THEN 0
            ELSE LET nonword == {j \in (i + 2)..Len(s) : ~IsWord(s[j])}
                     w == IF nonword = {} THEN Len(s) + 1 ELSE SetMin(nonword)
                     nonspace == {k \in w..Len(s) : ~IsSpace(s[k])}
                 IN  IF w = i + 2 \/ nonspace = {} THEN 0
                     ELSE IF s[SetMin(nonspace)] = "=" THEN SetMin(nonspace) ELSE 0
      [] pattern = "tag" ->                   \* <[^>]*>
            IF s[i] # "<" THEN 0
            ELSE LET gts == {j \in (i + 1)..Len(s) : s[j] = ">"}
                 IN  IF gts = {} THEN 0 ELSE SetMin(gts)

\* re.sub(pattern, '', s): the matches removed from left to right, from i on
RECURSIVE ReSubFrom(_, _, _)
ReSubFrom(pattern, s, i) ==
    IF i > Len(s) THEN <<>>
    ELSE LET e == MatchEnd(pattern, s, i)
         IN  IF e >= i THEN ReSubFrom(pattern, s, e + 1)
             ELSE <<s[i]>> \o ReSubFrom(pattern, s, i + 1)

\* (the text is bound first, so that it is computed once)
ReSub(pattern, s) == CHOOSE out \in {ReSubFrom(pattern, x, 1) : x \in {s}} : TRUE

\* html.escape(s) with quote=True
EscapeChar(c) ==
    CASE c = "&" -> <<"&", "a", "m", "p", ";">>
      [] c = "<" -> <<"&", "l", "t", ";">>
      [] c = ">" -> <<"&", "g", "t", ";">>
      [] c = "\"" -> <<"&", "q", "u", "o", "t", ";">>
      [] c = "'" -> <<"&", "#", "x", "2", "7", ";">>
      [] OTHER -> <<c>>

RECURSIVE HtmlEscape(_)
HtmlEscape(s) == IF s = <<>> THEN <<>> ELSE EscapeChar(Head(s)) \o HtmlEscape(Tail(s))

\* the validator of the message field
sanitize_message(v) ==
    IF v = <<>> THEN v
    ELSE LET s1 == ReSub("script_block", v)
             s2 == ReSub("javascript", s1)
             s3 == ReSub("vbscript", s2)
             s4 == ReSub("data", s3)
             s5 == ReSub("event_handler", s4)
             s6 == ReSub("tag", s5)
         IN  CHOOSE out \in {Strip(HtmlEscape(x)) : x \in {s6}} : TRUE

CsrfFormatMin == 16
CsrfFormatMax == 64

\* re.match(r'^[a-zA-Z0-9]{16,64}$', v): $ also matches before a final newline
CsrfFormat(v) ==
    LET core == IF Len(v) > 0 /\ v[Len(v)] = "\n" THEN SubSeq(v, 1, Len(v) - 1) ELSE v
    IN  /\ Len(core) >= CsrfFormatMin
        /\ Len(core) <= CsrfFormatMax
        /\ \A i \in 1..Len(core) : IsAlnum(core[i])

\* the validator of the csrf_token field: TRUE when it raises
validate_csrf_token_format(v) == v = <<>> \/ ~CsrfFormat(v)

S_true_words ==
    {<<"1">>, <<"o", "n">>, <<"t">>, <<"t", "r", "u", "e">>, <<"y">>, <<"y", "e", "s">>}
S_false_words ==
    {<<"0">>, <<"o", "f", "f">>, <<"f">>, <<"f", "a", "l", "s", "e">>, <<"n">>,
     <<"n", "o">>}

LowerStr(s) == [i \in 1..Len(s) |-> Lower(s[i])]

\* the framework's reading of a bool field: Bool(b), or Null when it is refused
BoolField(v) ==
    CASE v.t = "bool" -> v
      [] v.t = "int" -> IF v.n = 1 THEN Bool(TRUE) ELSE IF v.n = 0 THEN Bool(FALSE) ELSE Null
      [] v.t = "str" -> IF \E w \in S_true_words : LowerStr(v.s) = w THEN Bool(TRUE)
                        ELSE IF \E w \in S_false_words : LowerStr(v.s) = w THEN Bool(FALSE)
                        ELSE Null
      [] OTHER -> Null

\* Building ContactFormData from the JSON body: the model, or ok = FALSE when
\* the framework answers 422.  EmailStr is the framework's address check; the
\* model admits the strings of the shape local@domain.tld.
ContactFormDataModel(fields) ==
    LET consent == IF fields.consent.t # "absent" THEN fields.consent
                   ELSE fields.consent_given          \* allow_population_by_field_name
        ok == /\ IsStr(fields.email) /\ EmailCore(fields.email.s)
              /\ IsStr(fields.message)
              /\ Len(fields.message.s) >= 1
              /\ Len(fields.message.s) <= MessageMaxLen
              /\ BoolField(consent) # Null
              /\ IsStr(fields.csrf_token)
              /\ Len(fields.csrf_token.s) >= CsrfFormatMin
              /\ Len(fields.csrf_token.s) <= CsrfFormatMax
              /\ ~validate_csrf_token_format(fields.csrf_token.s)
    IN  IF ok
        THEN [ok |-> TRUE,
              email |-> fields.email,
              message |-> Str(sanitize_message(fields.message.s)),
              consent_given |-> BoolField(consent),
              csrf_token |-> fields.csrf_token]
        ELSE [ok |-> FALSE]

\* a few evaluations of the sanitizer on concrete texts
SanitizeExamples ==
    /\ sanitize_message(S_Hi) = S_Hi
    /\ sanitize_message(<<"<", "b", ">", "H", "i", "<", "/", "b", ">">>) = S_Hi
    /\ sanitize_message(<<"a", "&", "b">>) = <<"a", "&", "a", "m", "p", ";", "b">>
    /\ sanitize_message(<<"<", "s", "c", "r", "i", "p", "t", ">", "x",
                          "<", "/", "S", "C", "R", "I", "P", "T", ">", " ", "y">>) = <<"y">>
    /\ sanitize_message(<<"o", "n", "c", "l", "i", "c", "k", " ", "=", "1">>) = <<"1">>
    /\ sanitize_message(<<"o", "n", "=", "1">>) = <<"o", "n", "=", "1">>
    /\ sanitize_message(<<"1", "<", "2">>) = <<"1", "&", "l", "t", ";", "2">>

----------------------------------------------------------------------------
(* The HTTP routes that take a contact submission *)

MaxRouteCalls == 6

\* An HTTP request: the method, whether the body parses as JSON and its fields,
\* the X-Forwarded-For header split at its commas (<<>> when absent), the
\* X-Real-IP header ("" when absent), the peer address, the User-Agent header.
ValidBody ==
    [name |-> Str(S_John), email |-> Str(S_john_email), message |-> Str(S_Hi),
     consent_given |-> Bool(TRUE), consent |-> Bool(TRUE),
     csrf_token |-> Str(S_token32)]

ValidHttpRequest ==
    [method |-> "POST", json |-> TRUE, fields |-> ValidBody,
     forwarded_for |-> <<Ip1>>, real_ip |-> "", client_host |-> Ip2,
     user_agent |-> Str(S_Mozilla)]

NoConsentBody == [ValidBody EXCEPT !.consent_given = Absent, !.consent = Absent]

HttpRequests ==
    {ValidHttpRequest,
     [ValidHttpRequest EXCEPT !.fields = NoConsentBody],
     [ValidHttpRequest EXCEPT !.json = FALSE],
     [ValidHttpRequest EXCEPT !.fields.csrf_token = Str(S_token16)]}

HeaderOr(header, default) == IF header.t = "absent" THEN default ELSE header.s

\* a plausible slip: the whole address logged where its domain is meant
EmailDomain_whole(email) == email

\* text after the first "@" up to the next one: email.split('@')[1]
EmailDomain(email) ==
    LET first == SetMin({i \in 1..Len(email) : email[i] = "@"})
        later == {i \in (first + 1)..Len(email) : email[i] = "@"}
    IN  SubSeq(email, first + 1, IF later = {} THEN Len(email) ELSE SetMin(later) - 1)

\* backend/api/contact.py
get_client_ip(request) ==
    IF request.forwarded_for # <<>> THEN request.forwarded_for[1]
    ELSE IF request.real_ip # "" THEN request.real_ip
    ELSE request.client_host

get_user_agent(request) == HeaderOr(request.user_agent, S_unknown)

send_email_notification(form_data, submission_id, id, t) ==
    log_event("email_notification_sent",
              [submission_id |-> submission_id,
               recipient |-> "communications@corporate-inc.com",
               sender_domain |-> EmailDomain(form_data.email.s)],
              id, t)

\* The framework builds form_data from the body before it calls the route, and
\* answers 422 itself when it cannot.
RequestBody(request) ==
    IF request.json THEN ContactFormDataModel(request.fields) ELSE [ok |-> FALSE]

RequestValidationError ==
    [status |-> 422, body |-> [detail |-> "validation error"],
     events |-> <<>>, stored |-> <<>>, limiter |-> "skipped", uuids |-> 0]

\* POST /api/contact/submit: the response, the audit entries written, what the
\* handler built for this request did, the uuids drawn
submit_contact_form(form_data, request, t, uuid0) ==
    LET client_ip == get_client_ip(request)
        user_agent == get_user_agent(request)
        ip_hash == hash_ip_address(client_ip)
        attempt ==
            log_event("api_contact_form_attempt",
                      [ip_hash |-> ip_hash,
                       user_agent |-> SubSeq(user_agent, 1,
                                             IF Len(user_agent) < UserAgentMaxLen
                                             THEN Len(user_agent) ELSE UserAgentMaxLen),
                       email_domain |-> EmailDomain(form_data.email.s),
                       message_length |-> Len(form_data.message.s)],
                      uuid0 + 1, t)
        submission_data ==
            [name |-> Absent, email |-> form_data.email, message |-> form_data.message,
             consent_given |-> form_data.consent_given, consent |-> Absent]
        \* what follows result = handler.process_submission(...)
        Respond(result) ==
            LET after == uuid0 + 1 + result.uuids
            IN  IF result.result.success
                THEN [status |-> 200,
                      body |-> [success |-> TRUE, message |-> result.result.message,
                                submission_id |-> result.result.submission_id,
                                error |-> Null],
                      events |-> <<attempt>> \o result.events \o
                                 <<log_event("api_contact_form_success",
                                             [submission_id |-> result.result.submission_id,
                                              ip_hash |-> ip_hash], after + 1, t),
                                   send_email_notification(form_data,
                                                           result.result.submission_id,
                                                           after + 2, t)>>,
                      stored |-> result.stored, limiter |-> result.limiter,
                      uuids |-> 1 + result.uuids + 2]
                \* the HTTPException(400) is raised inside the try and caught by
                \* `except Exception`, which answers 500
                ELSE [status |-> 500,
                      body |-> [detail |->
                                "An unexpected error occurred. Please try again later."],
                      events |-> <<attempt>> \o result.events \o
                                 <<log_event("api_contact_form_failure",
                                             [ip_hash |-> ip_hash,
                                              error |-> result.result.error],
                                             after + 1, t),
                                   log_event("api_contact_form_error",
                                             [ip_hash |-> ip_hash,
                                              error_type |-> "HTTPException"],
                                             after + 2, t)>>,
                      stored |-> result.stored, limiter |-> result.limiter,
                      uuids |-> 1 + result.uuids + 2]
    \* handler = ContactFormHandler(): a rate_limiter that starts empty
    IN  CHOOSE response \in
            {Respond(result) : result \in
                {process_submission(EmptyDict, submission_data, client_ip, user_agent,
                                    form_data.csrf_token, t, uuid0 + 1)}} : TRUE

\* backend/function_app.py, POST /api/contact
contact_form(req) ==
    LET form_data == req.fields
        missing_fields == {f \in {"name", "email", "message"} : ~Truthy(form_data[f])}
        email == form_data.email
    IN  IF ~req.json
        THEN [status |-> 400, body |-> [error |-> "Invalid JSON"]]
        ELSE IF missing_fields # {}
        THEN [status |-> 400, body |-> [error |-> "Missing required fields",
                                        fields |-> missing_fields]]
        ELSE IF ~IsStr(email)                      \* "@" in email raises TypeError
        THEN [status |-> 500, body |-> [error |-> "Internal server error"]]
        ELSE IF "@" \notin SeqRange(email.s) \/ "." \notin SeqRange(email.s)
        THEN [status |-> 400, body |-> [error |-> "Invalid email format"]]
        ELSE IF ~IsStr(form_data.name)             \* email + name raises TypeError
        THEN [status |-> 500, body |-> [error |-> "Internal server error"]]
        ELSE [status |-> 200,
              body |-> [success |-> TRUE,
                        message |-> "Thank you for your message. We'll get back to you soon.",
                        submission_id |-> [contact_hash |-> email.s \o form_data.name.s]]]

\* server/function_app.py, POST or OPTIONS /api/contact, on the handler the
\* module builds once
contact_form_submission(rl, req, t, uuid0) ==
    LET ip_address == IF req.forwarded_for = <<>> THEN "0.0.0.0" ELSE req.forwarded_for[1]
        user_agent == HeaderOr(req.user_agent, S_unknown)
        csrf_token == Get(req.fields, "csrf_token", Str(<<>>))
        r == process_submission(rl, req.fields, ip_address, user_agent, csrf_token,
                                t, uuid0)
        Quiet(status, body) ==
            [status |-> status, body |-> body, events |-> <<>>, stored |-> <<>>,
             rl |-> rl, limiter |-> "skipped", uuids |-> 0]
    IN  IF req.method = "OPTIONS" THEN Quiet(200, [empty |-> TRUE])
        ELSE IF ~req.json
        THEN Quiet(400, [success |-> FALSE, error |-> "Invalid request data"])
        ELSE [status |-> IF r.result.success THEN 200 ELSE 400, body |-> r.result,
              events |-> r.events, stored |-> r.stored, rl |-> r.rl,
              limiter |-> r.limiter, uuids |-> r.uuids]

\* the answer says success = true
Succeeded(response) ==
    "success" \in DOMAIN response.body /\ response.body.success = TRUE

Served(endpoint, req, ip, response, limiter) ==
    [endpoint |-> endpoint, client |-> ip, valid |-> req = ValidHttpRequest,
     time |-> now, status |-> response.status, success |-> Succeeded(response),
     limiter |-> limiter]

\* The three applications are separate processes, each with its own handler
\* and log: a behaviour follows the requests one of them serves.
Running(endpoint) == IF served = <<>> THEN TRUE ELSE served[1].endpoint = endpoint

SubmitContactForm(req) ==
    \E form_data \in {RequestBody(req)} :
    \E r \in {IF form_data.ok THEN submit_contact_form(form_data, req, now, next_uuid)
               ELSE RequestValidationError} :
        /\ calls < MaxRouteCalls
        /\ Running("submit_contact_form")
        /\ audit' = audit \o r.events
        /\ store_calls' = store_calls \o r.stored
        /\ next_uuid' = next_uuid + r.uuids
        /\ served' = Append(served, Served("submit_contact_form", req,
                                           get_client_ip(req), r, r.limiter))
        /\ calls' = calls + 1
        /\ last' = [op |-> "submit_contact_form", req |-> req,
                    response |-> [status |-> r.status, body |-> r.body],
                    store_before |-> Len(store_calls)]
        /\ UNCHANGED <<now, rate_limiter, threads, limiter_log>>

ContactForm(req) ==
    LET r == contact_form(req)
    IN  /\ calls < MaxRouteCalls
        /\ Running("contact_form")
        /\ served' = Append(served, Served("contact_form", req,
                                           get_client_ip(req), r, "none"))
        /\ calls' = calls + 1
        /\ last' = [op |-> "contact_form", req |-> req, response |-> r,
                    store_before |-> Len(store_calls)]
        /\ UNCHANGED <<now, rate_limiter, audit, store_calls, next_uuid, threads,
                       limiter_log>>

ContactFormSubmission(req) ==
    \E r \in {contact_form_submission(rate_limiter, req, now, next_uuid)} :
        /\ calls < MaxRouteCalls
        /\ Running("contact_form_submission")
        /\ rate_limiter' = r.rl
        /\ audit' = audit \o r.events
        /\ store_calls' = store_calls \o r.stored
        /\ next_uuid' = next_uuid + r.uuids
        /\ served' = Append(served, Served("contact_form_submission", req,
                                           get_client_ip(req), r, r.limiter))
        /\ calls' = calls + 1
        /\ last' = [op |-> "contact_form_submission", req |-> req,
                    response |-> [status |-> r.status, body |-> r.body],
                    store_before |-> Len(store_calls)]
        /\ UNCHANGED <<now, threads, limiter_log>>

\* what the function-app route is sent besides: the preflight, and a body
\* whose name is the JSON number 5, on which .strip() raises AttributeError
\* inside process_submission
ServerRequests ==
    HttpRequests \cup {[ValidHttpRequest EXCEPT !.method = "OPTIONS"],
                       [ValidHttpRequest EXCEPT !.fields.name = Num(5)]}

NextRoutes ==
    \/ \E req \in HttpRequests : SubmitContactForm(req)
    \/ \E req \in HttpRequests : ContactForm(req)
    \/ \E req \in ServerRequests : ContactFormSubmission(req)

SpecRoutes == Init /\ [][NextRoutes]_vars

\* The consent a request carries is the boolean true under either key.
CarriesConsent(fields) ==
    fields.consent_given = Bool(TRUE) \/ fields.consent = Bool(TRUE)

\* C3: the serverless endpoint contact_form never answers success = true
\* unless the request carries consent that is true; a request with name, email
\* and message but without consent is rejected.
C3_NoSuccessWithoutConsent ==
    last.op = "contact_form" /\ Succeeded(last.response)
        => CarriesConsent(last.req.fields)

\* the submissions one client sent to one endpoint, in order
SentBy(endpoint, client) ==
    SelectSeq(served, LAMBDA s : s.endpoint = endpoint /\ s.client = client)

ContactEndpoints == {"submit_contact_form", "contact_form", "contact_form_submission"}

\* C9: of 6 otherwise valid submissions sent in quick succession by one client
\* to one contact endpoint, the first 5 are not rate limited and the 6th is
\* rejected by the rate limit with success = false.
C9_SixthRapidSubmissionRejected ==
    \A endpoint \in ContactEndpoints : \A client \in {Ip1, Ip2} :
        LET sent == SentBy(endpoint, client)
        IN  \A k \in 1..Len(sent) :
                (/\ k <= MaxRequests + 1
                 /\ \A j \in 1..k : sent[j].valid
                 /\ sent[k].time - sent[1].time < WindowMinutes)
                => /\ k <= MaxRequests => sent[k].limiter # "rejected"
                   /\ k = MaxRequests + 1 =>
                          sent[k].limiter = "rejected" /\ ~sent[k].success

----------------------------------------------------------------------------
(* process_submission when the audit sink can fail                         *)

MaxSinkCalls == 1

\* What one call of AuditLogger.log_event does: it returns, or the sink raises
\* (json.dumps or a logging handler); log_event has no try of its own.
LogOutcomes == {"ok", "OSError", "ValueError"}

\* the outcomes of the successive log_event calls of one submission
Sinks == [1..3 -> LogOutcomes]

\* process_submission with the k-th log_event call of the submission ending as
\* sink[k]: the exception that leaves the call ("none" when it returns), the
\* dictionary returned, the audit entries written, the records stored.
process_submission_sink(rl, form_data, ip_address, user_agent, csrf_token, t, uuid0, sink) ==
    LET ip_hash == hash_ip_address(ip_address)
        attempt ==
            log_event("contact_form_attempt",
                      [ip_hash |-> ip_hash,
                       user_agent |-> sanitize_user_agent(user_agent),
                       has_csrf_token |-> Truthy(csrf_token)],
                      uuid0 + 1, t)
        Leaves(exc, result, events, stored, l, limiter, uuids) ==
            [raised |-> exc, result |-> result, events |-> events, stored |-> stored,
             rl |-> l, limiter |-> limiter, uuids |-> uuids]
        \* the except clause that catches exc; its log_event is the k-th call
        \* and draws uuid id; an exception raised inside it leaves the call
        Except(exc, k, id, stored, body) ==
            LET h == IF exc = "ValueError" THEN OnValueError(ip_hash, exc, id, t)
                     ELSE OnException(ip_hash, exc, id, t)
            IN  IF sink[k] # "ok"
                THEN Leaves(sink[k], Null, <<attempt>>, stored, body.rl, body.limiter,
                            id - uuid0)
                ELSE Leaves("none", h.result, <<attempt>> \o h.events, stored, body.rl,
                            body.limiter, id - uuid0)
        Try(body) ==
            LET submission_id == store_contact_data(body.contact_data, uuid0 + 2)
                stored == <<[id |-> submission_id, data |-> body.contact_data]>>
                done == OnSuccess(ip_hash, submission_id, uuid0 + 3, t)
            IN  IF body.exc # "none" THEN Except(body.exc, 2, uuid0 + 2, <<>>, body)
                ELSE IF sink[2] = "ok"
                THEN Leaves("none", done.result, <<attempt>> \o done.events, stored,
                            body.rl, body.limiter, 3)
                \* the success log raises inside the try, after the store
                ELSE Except(sink[2], 3, uuid0 + 4, stored, body)
    IN  IF sink[1] # "ok"          \* the attempt log is outside the try
        THEN Leaves(sink[1], Null, <<>>, <<>>, rl, "skipped", 1)
        ELSE CHOOSE out \in
                 {Try(body) : body \in
                     {TryBlock(rl, form_data, ip_hash, user_agent, csrf_token, t)}} : TRUE

SubmitSinkFailing(req, sink) ==
    \E r \in {process_submission_sink(rate_limiter, req.form, req.ip_address,
                                      req.user_agent, req.csrf_token, now, next_uuid,
                                      sink)} :
    \E sound \in {process_submission(rate_limiter, req.form, req.ip_address,
                                     req.user_agent, req.csrf_token, now, next_uuid)} :
        /\ calls < MaxSinkCalls
        /\ rate_limiter' = r.rl
        /\ audit' = audit \o r.events
        /\ store_calls' = store_calls \o r.stored
        /\ next_uuid' = next_uuid + r.uuids
        /\ limiter_log' = IF r.limiter = "skipped" THEN limiter_log
                          ELSE Logged(limiter_log, hash_ip_address(req.ip_address), now,
                                      r.limiter = "allowed")
        /\ calls' = calls + 1
        /\ last' = [op |-> "process_submission_sink", req |-> req, sink |-> sink,
                    raised |-> r.raised, result |-> r.result,
                    sound |-> sound, outcome |-> r,
                    store_before |-> Len(store_calls)]
        /\ UNCHANGED <<now, threads, served>>

NextSink == \E req \in BurstRequests : \E sink \in Sinks : SubmitSinkFailing(req, sink)

SpecSink == Init /\ [][NextSink]_vars

SinkCalled == last.op = "process_submission_sink"

\* With a sink that never fails the call is process_submission itself.
SinkOkIsProcessSubmission ==
    (SinkCalled /\ \A k \in 1..3 : last.sink[k] = "ok")
        => /\ last.raised = "none"
           /\ last.result = last.sound.result
           /\ last.outcome.events = last.sound.events
           /\ last.outcome.stored = last.sound.stored
           /\ last.outcome.rl = last.sound.rl
           /\ last.outcome.uuids = last.sound.uuids

\* C11 (as claimed): whichever log_event calls fail, process_submission still
\* returns a dictionary, and its success value is the one the submission gets
\* when logging succeeds; a stored record is not reported as failed.
C11_SinkFailureNeverAborts ==
    SinkCalled =>
        /\ last.raised = "none"
        /\ last.result.success = last.sound.result.success

----------------------------------------------------------------------------
(* What the audit trail tells apart                                        *)

\* an audit entry without its generated id and timestamp
Payload(entry) ==
    [event_type |-> entry.event_type, user_id |-> entry.user_id,
     event_data |-> entry.event_data]

\* the messages of the ValueErrors ContactFormData.validate raises
ValidateErrors ==
    {"Invalid name field", "Invalid email field", "Invalid message field",
     "Invalid email format", "Invalid input detected"}

\* what process_submission answers and logs as outcome for req on a handler
\* whose limiter is empty
FreshOutcome(req) ==
    CHOOSE out \in
        {[result |-> r.result, entry |-> Payload(r.events[2])] : r \in
            {process_submission(EmptyDict, req.form, req.ip_address, req.user_agent,
                                req.csrf_token, 0, 0)}} : TRUE

\* the requests of the burst that field validation rejects
RejectedByValidation ==
    {req \in BurstRequests :
        TryBlock(EmptyDict, req.form, hash_ip_address(req.ip_address), req.user_agent,
                 req.csrf_token, 0).why \in ValidateErrors}

\* C12 (as claimed): a submission rejected by the rate limiter gets the same
\* answer as one rejected by field validation, but its outcome audit entry,
\* id and timestamp apart, differs from that of the validation failure for the
\* same ip_hash.
C12_RateLimitDistinctInAudit ==
    (Called /\ last.limiter = "rejected") =>
        \A req \in RejectedByValidation :
            req.ip_address = last.req.ip_address =>
                /\ last.result = FreshOutcome(req).result
                /\ Payload(NewEvents[2]) # FreshOutcome(req).entry

\* the two dictionaries a failing call can return
InvalidFormData == [success |-> FALSE, error |-> MsgInvalid]
ErrorOccurred == [success |-> FALSE, error |-> MsgError]

\* how the try block of the last call ended
LastTry ==
    TryBlock(last.rl_before, last.req.form, hash_ip_address(last.req.ip_address),
             last.req.user_agent, last.req.csrf_token, last.time)

----------------------------------------------------------------------------
(* The CSRF token through the two layers                                   *)

\* C14 (as claimed): a submission to the pipeline entry whose csrf_token is a
\* string of 16 to 64 alphanumeric characters, with a valid email and message
\* and consent true, from a client under the rate limit, is accepted with
\* success = true.
C14_AnyFormatTokenAccepted ==
    (/\ last.op = "submit_contact_form"
     /\ RequestBody(last.req).ok
     /\ CsrfFormat(last.req.fields.csrf_token.s)
     /\ RequestBody(last.req).consent_given = Bool(TRUE))
        => Succeeded(last.response)

----------------------------------------------------------------------------
(* Missing fields and suspicious content in process_submission             *)

\* the field is absent from the form or empty once stripped
MissingField(form, key) == StripField(form, key) = Str(<<>>)

\* C15 (as claimed): a record in which email, message or consent is missing
\* (absent or empty) is rejected and not stored; the well-formed record with
\* all three present and consent true is accepted.
C15_MissingFieldRejected ==
    Called =>
        /\ (\/ MissingField(last.req.form, "email")
            \/ MissingField(last.req.form, "message")
            \/ last.req.form.consent_given = Absent)
               => (last.result.success = FALSE /\ ~StoreInvoked)
        /\ last.req = ValidRequest => last.result.success = TRUE

\* The suspicious-content set of the claim: script tag, script-like protocol,
\* inline event handler, SQL-injection token, shell metacharacter (of which
\* the semicolon, the bar and the double ampersand are written here).
S_union_select ==
    <<"u", "n", "i", "o", "n", " ", "s", "e", "l", "e", "c", "t">>
S_or_quote == <<"'", " ", "o", "r", " ", "'">>
S_sql_comment == <<"-", "-">>
S_and_and == <<"&", "&">>

Suspicious(s) ==
    \/ Search(s, S_script)
    \/ Search(s, S_javascript) \/ Search(s, S_vbscript) \/ Search(s, S_data)
    \/ SearchEventHandler(s)
    \/ Search(s, S_or_quote) \/ Search(s, S_union_select) \/ Search(s, S_sql_comment)
    \/ \E i \in 1..Len(s) : s[i] \in {";", "|"}
    \/ Search(s, S_and_and)

\* C16 (as claimed): a record in which name, email or message contains a member
\* of the suspicious-content set is rejected and never stored.
C16_SuspiciousContentRejected ==
    Called =>
        LET rec == FormRecord(last.req.form)
        IN  (\E f \in {rec.name, rec.email, rec.message} : IsStr(f) /\ Suspicious(f.s))
                => (last.result.success = FALSE /\ ~StoreInvoked)

----------------------------------------------------------------------------
(* The sanitizer applied to texts put together from fragments              *)

MaxFragments == 3
MaxSanitizeCalls == 1

Fragments ==
    {S_javascript, <<"j", "a", "v", "a">>, <<"s", "c", "r", "i", "p", "t", ":">>,
     S_data, <<"<", "b", ">">>, <<"&">>, <<"<">>, <<"\"">>,
     <<"o", "n", "c", "l", "i", "c", "k">>, <<"=">>, <<" ">>, S_Hi}

RECURSIVE Join(_)
Join(parts) == IF parts = <<>> THEN <<>> ELSE Head(parts) \o Join(Tail(parts))

SanitizerInputs ==
    {Join(parts) : parts \in UNION {[1..n -> Fragments] : n \in 0..MaxFragments}}

\* sanitize_message applied to v, and once more to its own output
SanitizeMessage(v) ==
    \E out \in {sanitize_message(v)} :
    \E again \in {sanitize_message(out)} :
        /\ calls < MaxSanitizeCalls
        /\ calls' = calls + 1
        /\ last' = [op |-> "sanitize_message", input |-> v, output |-> out,
                    again |-> again]
        /\ UNCHANGED <<now, rate_limiter, audit, store_calls, next_uuid, threads,
                       limiter_log, served>>

NextSanitize == \E v \in SanitizerInputs : SanitizeMessage(v)

SpecSanitize == Init /\ [][NextSanitize]_vars

Sanitized == last.op = "sanitize_message"

\* every character html.escape replaces is gone, and each "&" starts one of
\* the entities it writes
Entities ==
    {EscapeChar("&"), EscapeChar("<"), EscapeChar(">"), EscapeChar("\""),
     EscapeChar("'")}

EntityEscaped(s) ==
    \A i \in 1..Len(s) :
        /\ s[i] \notin {"<", ">", "\"", "'"}
        /\ s[i] = "&" => \E e \in Entities : SubSeq(s, i, i + Len(e) - 1) = e

\* C17 (as claimed): the output of the sanitizer holds no script tag, no
\* javascript:, vbscript: or data: prefix, no on*= event handler and no HTML
\* tag, also when removing one occurrence joins its neighbours into a new
\* one; and the output is HTML-entity-escaped.
C17_OutputFreeOfPatterns ==
    Sanitized =>
        /\ ~Search(last.output, S_script)
        /\ ~Search(last.output, S_javascript)
        /\ ~Search(last.output, S_vbscript)
        /\ ~Search(last.output, S_data)
        /\ ~SearchEventHandler(last.output)
        /\ \A i \in 1..Len(last.output) : MatchEnd("tag", last.output, i) = 0
        /\ EntityEscaped(last.output)

\* C18 (as claimed): sanitizing the sanitizer's output changes nothing.
C18_SanitizerIdempotent == Sanitized => last.again = last.output

----------------------------------------------------------------------------
(* DataRetentionManager asked about records of several ages                *)

MaxRetentionSteps == 3

DataTypes == {"contact_forms", "audit_logs", "user_sessions"}
UnknownDataTypes == {"unknown", "", "CONTACT_FORMS"}
CreationTimes == {0, 1, 2}

\* the clock moves on by a minute or by one of the retention periods
Advance(d) ==
    /\ calls < MaxRetentionSteps
    /\ now' = now + d
    /\ calls' = calls + 1
    /\ UNCHANGED <<rate_limiter, audit, store_calls, next_uuid, threads, limiter_log,
                   served, last>>

\* should_retain and get_expiry_date asked about one record
AskRetention(data_type, created_at) ==
    /\ calls < MaxRetentionSteps
    /\ calls' = calls + 1
    /\ last' = [op |-> "retention", data_type |-> data_type,
                created_at |-> created_at, time |-> now,
                retain |-> should_retain(data_type, created_at, now),
                expiry |-> get_expiry_date(data_type, created_at)]
    /\ UNCHANGED <<now, rate_limiter, audit, store_calls, next_uuid, threads,
                   limiter_log, served>>

NextRetention ==
    \/ \E d \in {1} \cup {RETENTION_POLICIES[c] : c \in DataTypes} : Advance(d)
    \/ \E data_type \in DataTypes \cup UnknownDataTypes :
           \E created_at \in CreationTimes : AskRetention(data_type, created_at)

SpecRetention == Init /\ [][NextRetention]_vars

Asked == last.op = "retention"

\* C19: for a known class the expiry is created_at plus the class's duration
\* and should_retain is true exactly while now is strictly before it; for
\* contact_forms: true right after creation, false at the expiry instant and
\* false once more than 5 years (of 365 days) have passed.
C19_RetainedUntilExpiry ==
    (Asked /\ last.data_type \in DataTypes) =>
        /\ last.expiry = Num(last.created_at + RETENTION_POLICIES[last.data_type])
        /\ last.retain = (last.time < last.expiry.n)
        /\ last.data_type = "contact_forms" =>
              /\ last.time = last.created_at => last.retain
              /\ last.time >= last.created_at + 5 * 365 * 24 * 60 => ~last.retain

C19_Witness ==
    /\ Asked
    /\ last.data_type = "contact_forms"
    /\ last.created_at = 1
    /\ last.time = 1 + 5 * 365 * 24 * 60
    /\ last.retain = FALSE

\* C20: for a class name that is not in the retention table, whatever
\* created_at and the current time, should_retain is false and
\* get_expiry_date is none.
C20_UnknownClassNotRetained ==
    (Asked /\ last.data_type \notin DataTypes) =>
        /\ last.retain = FALSE
        /\ last.expiry = Null

C20_Witness ==
    /\ Asked
    /\ last.data_type = "unknown"
    /\ last.created_at = 2
    /\ last.time = 1
    /\ last.retain = FALSE
    /\ last.expiry = Null

----------------------------------------------------------------------------
(* The data export and data deletion requests                              *)

MaxGdprCalls == 4

S_jane_email ==
    <<"j", "a", "n", "e", "@", "e", "x", "a", "m", "p", "l", "e", ".", "c", "o", "m">>

\* hashlib.sha256(user_identifier.encode()).hexdigest(), kept symbolic
sha256_hexdigest(text) == [sha256 |-> text]

\* handle_data_export_request at time t, uuid0 uuids having been drawn: the
\* dictionary returned, the audit entries written, the uuids drawn.  A
\* user_identifier that is no string has no encode(): the except clause runs.
handle_data_export_request(user_identifier, t, uuid0) ==
    IF IsStr(user_identifier)
    THEN [result |-> [success |-> TRUE, export_id |-> [uuid |-> uuid0 + 2],
                      message |->
                          "Data export will be available for download within 24 hours."],
          events |-> <<log_event("data_export_request",
                                 [user_identifier_hash |->
                                      sha256_hexdigest(user_identifier.s)],
                                 uuid0 + 1, t),
                       log_event("data_export_success",
                                 [export_id |-> [uuid |-> uuid0 + 2]], uuid0 + 3, t)>>,
          uuids |-> 3]
    ELSE [result |-> [success |-> FALSE,
                      error |-> "Failed to process data export request."],
          events |-> <<log_event("data_export_error",
                                 [error_type |-> "AttributeError"], uuid0 + 1, t)>>,
          uuids |-> 1]

handle_data_deletion_request(user_identifier, t, uuid0) ==
    IF IsStr(user_identifier)
    THEN [result |-> [success |-> TRUE, deletion_id |-> [uuid |-> uuid0 + 2],
                      message |-> "Your data has been scheduled for deletion."],
          events |-> <<log_event("data_deletion_request",
                                 [user_identifier_hash |->
                                      sha256_hexdigest(user_identifier.s)],
                                 uuid0 + 1, t),
                       log_event("data_deletion_success",
                                 [deletion_id |-> [uuid |-> uuid0 + 2]], uuid0 + 3, t)>>,
          uuids |-> 3]
    ELSE [result |-> [success |-> FALSE,
                      error |-> "Failed to process data deletion request."],
          events |-> <<log_event("data_deletion_error",
                                 [error_type |-> "AttributeError"], uuid0 + 1, t)>>,
          uuids |-> 1]

UserIdentifiers == {Str(S_john_email), Str(S_jane_email), Null}

GdprRequests ==
    {ValidRequest, [ValidRequest EXCEPT !.form.email = Str(S_jane_email)]}

\* neither request touches the records: only the audit log and the uuids move
DataExportRequest(user_identifier) ==
    \E r \in {handle_data_export_request(user_identifier, now, next_uuid)} :
        /\ calls < MaxGdprCalls
        /\ audit' = audit \o r.events
        /\ next_uuid' = next_uuid + r.uuids
        /\ calls' = calls + 1
        /\ last' = [op |-> "handle_data_export_request",
                    user_identifier |-> user_identifier, result |-> r.result,
                    audit_before |-> Len(audit), store_before |-> Len(store_calls)]
        /\ UNCHANGED <<now, rate_limiter, store_calls, threads, limiter_log, served>>

DataDeletionRequest(user_identifier) ==
    \E r \in {handle_data_deletion_request(user_identifier, now, next_uuid)} :
        /\ calls < MaxGdprCalls
        /\ audit' = audit \o r.events
        /\ next_uuid' = next_uuid + r.uuids
        /\ calls' = calls + 1
        /\ last' = [op |-> "handle_data_deletion_request",
                    user_identifier |-> user_identifier, result |-> r.result,
                    audit_before |-> Len(audit), store_before |-> Len(store_calls)]
        /\ UNCHANGED <<now, rate_limiter, store_calls, threads, limiter_log, served>>

NextGdpr ==
    \/ \E req \in GdprRequests : Submit(req, MaxGdprCalls)
    \/ \E user_identifier \in UserIdentifiers : DataExportRequest(user_identifier)
    \/ \E user_identifier \in UserIdentifiers : DataDeletionRequest(user_identifier)

SpecGdpr == Init /\ [][NextGdpr]_vars

\* the records handed to the store for an email, in order
Lookup(records, email) == SelectSeq(records, LAMBDA rec : rec.data.email = email)

\* C21 (as claimed): after N records were stored for an email, the erasure
\* request for it returns success with deleted_count = N, and a lookup by that
\* email then finds no record.
C21_ErasureDeletesAllRecords ==
    (last.op = "handle_data_deletion_request" /\ IsStr(last.user_identifier)) =>
        /\ last.result.success = TRUE
        /\ "deleted_count" \in DOMAIN last.result
        /\ last.result.deleted_count =
               Len(Lookup(SubSeq(store_calls, 1, last.store_before),
                          last.user_identifier))
        /\ Lookup(store_calls, last.user_identifier) = <<>>

\* C22 (as claimed): the export request for an email returns success with
\* the records stored for that email, unmodified, as its data payload, in
\* format json.
C22_ExportReturnsStoredRecords ==
    (last.op = "handle_data_export_request" /\ IsStr(last.user_identifier)) =>
        /\ last.result.success = TRUE
        /\ "data" \in DOMAIN last.result
        /\ "format" \in DOMAIN last.result
        /\ last.result.format = "json"
        /\ last.result.data = Lookup(store_calls, last.user_identifier)

\* the handler's answer was the invalid-form-data dictionary: the route
\* copies its error into the api_contact_form_failure entry it writes
HandlerReportedInvalid ==
    /\ last.op = "submit_contact_form"
    /\ \E i \in 1..Len(audit) :
           /\ i >= Len(audit) - 1
           /\ audit[i].event_type = "api_contact_form_failure"
           /\ audit[i].event_data.error = MsgInvalid

\* C23 (as claimed): when the handler reports a validation-class failure (CSRF,
\* rate limit, invalid field, missing consent) to the FastAPI route, the
\* response has status 400 or 422, never 500.
C23_ValidationFailureNever500 ==
    HandlerReportedInvalid => last.response.status \in {400, 422}

\* process_submission ran into its `except Exception` clause: the body the
\* function-app route sends back is the an-error-occurred dictionary
UnexpectedFailure ==
    /\ last.op = "contact_form_submission"
    /\ "error" \in DOMAIN last.response.body
    /\ last.response.body.error = MsgError

\* C24 (as claimed): when an unexpected failure occurs inside
\* process_submission, the function-app route answers with a 500-class
\* status, distinct from the 400 it uses for validation failures.
C24_UnexpectedFailureIs500 ==
    UnexpectedFailure => last.response.status >= 500

----------------------------------------------------------------------------
(* The audit log under every writer of the module                          *)

MaxAuditCalls == 3

\* one log, written by process_submission, by the FastAPI route with its
\* notification, and by the export and deletion requests
NextAudit ==
    \/ \E req \in BurstRequests : Submit(req, MaxAuditCalls)
    \/ \E req \in HttpRequests : calls < MaxAuditCalls /\ SubmitContactForm(req)
    \/ \E user_identifier \in UserIdentifiers :
           calls < MaxAuditCalls /\ DataExportRequest(user_identifier)
    \/ \E user_identifier \in UserIdentifiers :
           calls < MaxAuditCalls /\ DataDeletionRequest(user_identifier)

SpecAudit == Init /\ [][NextAudit]_vars

\* what the requests carry that identifies a person
ClientIps ==
    {req.ip_address : req \in BurstRequests} \cup
    {get_client_ip(req) : req \in HttpRequests}

SenderEmails ==
    {req.form.email.s : req \in {b \in BurstRequests : IsStr(b.form.email)}} \cup
    {req.fields.email.s : req \in {h \in HttpRequests : IsStr(h.fields.email)}} \cup
    {id.s : id \in {u \in UserIdentifiers : IsStr(u)}}

MessageTexts ==
    {req.form.message.s : req \in {b \in BurstRequests : IsStr(b.form.message)}} \cup
    {req.fields.message.s : req \in {h \in HttpRequests : IsStr(h.fields.message)}}

ErrorKinds == {"ValueError", "AttributeError", "TypeError", "HTTPException"}

\* a payload field that holds no address of a client, no e-mail address of a
\* sender and no message text
ScrubbedField(key, value) ==
    CASE key = "ip_hash" -> \E ip \in ClientIps : value = hash_ip_address(ip)
      [] key = "user_identifier_hash" ->
             \E email \in SenderEmails : value = sha256_hexdigest(email)
      [] key \in {"email_domain", "sender_domain"} ->
             /\ "@" \notin SeqRange(value)
             /\ value \notin SenderEmails \cup MessageTexts
      [] key = "user_agent" ->
             /\ Len(value) <= UserAgentMaxLen
             /\ value \notin SenderEmails \cup MessageTexts
      [] key = "message_length" -> value \in Nat
      [] key \in {"submission_id", "export_id", "deletion_id"} ->
             DOMAIN value = {"uuid"}
      [] key = "data_retention_expiry" -> value.t \in {"int", "null"}
      [] key = "has_csrf_token" -> value \in BOOLEAN
      [] key = "error_type" -> value \in ErrorKinds
      [] key = "error" -> value \in {MsgInvalid, MsgError}
      [] key = "recipient" -> value = "communications@corporate-inc.com"
      [] OTHER -> FALSE

\* the fields the claim lists: hashed IP, e-mail domain, lengths, generated
\* ids, flags and error kinds
ListedFields ==
    {"ip_hash", "email_domain", "sender_domain", "message_length", "submission_id",
     "export_id", "deletion_id", "has_csrf_token", "error_type"}

\* C25 (as claimed): every audit payload holds only the hashed IP, the e-mail
\* domain, lengths, generated ids, flags and error kinds.
C25_OnlyListedFields ==
    \A i \in 1..Len(audit) : DOMAIN audit[i].event_data \subseteq ListedFields

\* C25 (amended): no audit payload carries a raw client IP, a sender's full
\* e-mail address or the message text; besides the listed fields a payload
\* may hold the truncated user agent, the retention expiry, the digest of the
\* user identifier, the fixed recipient address and the generic error message.
C25_NoPersonalDataInAudit ==
    \A i \in 1..Len(audit) :
        \A key \in DOMAIN audit[i].event_data :
            ScrubbedField(key, audit[i].event_data[key])

EventTypes == {audit[i].event_type : i \in 1..Len(audit)}

\* the route, the handler, the notification, an export and a deletion have
\* all written to one log
C25_Witness ==
    {"api_contact_form_success", "contact_form_success", "email_notification_sent",
     "data_export_success", "data_deletion_success"} \subseteq EventTypes

\* the contact_form_success entries the last call wrote
SuccessEntries ==
    SelectSeq(NewEvents, LAMBDA e : e.event_type = "contact_form_success")

\* C26: on success the submission_id returned is the id of the single
\* store_contact_data call of the request and the id in the one success
\* audit entry, whose payload carries the expiry of class contact_forms, five
\* years (of 365 days) after the time of the entry; no call invokes the store
\* more than once.
C26_OneIdStoredLoggedReturned ==
    Called =>
        /\ Len(store_calls) <= last.store_before + 1
        /\ last.result.success = TRUE =>
               /\ Len(store_calls) = last.store_before + 1
               /\ last.result.submission_id = store_calls[Len(store_calls)].id
               /\ Len(SuccessEntries) = 1
               /\ SuccessEntries[1].event_data.submission_id = last.result.submission_id
               /\ SuccessEntries[1].event_data.data_retention_expiry =
                      Num(SuccessEntries[1].timestamp + 5 * 365 * MinutesPerDay)

\* a successful call made after the clock has moved
C26_Witness ==
    Called /\ last.result.success = TRUE /\ StoreInvoked /\ last.time > 0

\* the timestamps stored for the identifier of the last call, before and after
StoredBefore == DictGet(last.rl_before, last.id)
StoredAfter == DictGet(rate_limiter, last.id)

\* C27: the count compared with max_requests is that of the stored timestamps
\* strictly later than now - window_minutes (one exactly window_minutes old
\* is not counted), and after an accepted call every timestamp stored for the
\* identifier lies within the window, at most max_requests of them, in
\* non-decreasing order.
C27_PruneThenCount ==
    Checked =>
        /\ last.allowed <=>
               Cardinality({i \in 1..Len(StoredBefore) :
                               StoredBefore[i] > last.time - WindowMinutes}) < MaxRequests
        /\ last.allowed =>
               /\ Len(StoredAfter) <= MaxRequests
               /\ \A i \in 1..Len(StoredAfter) :
                      /\ StoredAfter[i] > last.time - WindowMinutes
                      /\ StoredAfter[i] <= last.time
               /\ \A i \in 1..(Len(StoredAfter) - 1) : StoredAfter[i] <= StoredAfter[i + 1]

\* an accepted call that dropped a timestamp exactly window_minutes old from
\* a full list
C27_Witness ==
    /\ Checked
    /\ last.allowed
    /\ Len(StoredBefore) = MaxRequests
    /\ \E i \in 1..Len(StoredBefore) : StoredBefore[i] = last.time - WindowMinutes
    /\ Len(StoredAfter) < Len(StoredBefore) + 1

MaxFrameCalls == 6

\* the threads of SpecConc with the clock standing still: every call falls
\* into one window, so the lists differ only by who wrote them
NextFrame ==
    \/ \E p \in Threads : \E id \in Identifiers :
           calls < MaxFrameCalls /\ ThreadRead(p, id)
    \/ \E p \in Threads : ThreadCheck(p)
    \/ \E p \in Threads : ThreadWrite(p)

SpecFrame == Init /\ [][NextFrame]_vars

\* C28: a check_rate_limit call for one identifier, accepted or rejected,
\* leaves the stored sequence of every other identifier as it was, and a call
\* is rejected only on admitted calls of its own identifier, whatever the
\* other identifiers did and however the calls of the threads interleave.
C28_OtherIdentifiersUntouched ==
    Checked =>
        /\ \A other \in Identifiers \ {last.id} :
               DictGet(rate_limiter, other) = DictGet(last.rl_before, other)
        /\ ~last.allowed => AdmittedIn(last.log_before, last.time) >= MaxRequests

\* a call has just filled the window of its identifier while another thread
\* is inside a call for another identifier
C28_Witness ==
    /\ Checked
    /\ last.allowed
    /\ Len(DictGet(rate_limiter, last.id)) = MaxRequests
    /\ \E q \in Threads :
           threads[q].pc \in {"read", "append"} /\ threads[q].id # last.id

\* what the rate limiter answers to the identifier of the last call, asked on
\* the mapping the call found
LimiterAnswer ==
    check_rate_limit(last.rl_before, hash_ip_address(last.req.ip_address), last.time)

CsrfPassed == validate_csrf_token(last.req.csrf_token) = "true"

\* C29: the checks run in the order CSRF, rate limit, field validation,
\* consent, store.  A call rejected at the CSRF check leaves the rate_limiter
\* mapping as it was; a call that passes the CSRF check and is admitted by
\* the rate limiter has its time recorded whether or not validation or the
\* consent check rejects it afterwards; a call the limiter rejects fails and
\* records nothing; the store is reached only by a record that passed all four.
C29_ChecksInOrder ==
    Called =>
        /\ ~CsrfPassed => (rate_limiter = last.rl_before /\ last.result.success = FALSE)
        /\ (CsrfPassed /\ LimiterAnswer.allowed) => rate_limiter = LimiterAnswer.rl
        /\ (CsrfPassed /\ ~LimiterAnswer.allowed) =>
               (rate_limiter = last.rl_before /\ last.result.success = FALSE)
        /\ StoreInvoked =>
               /\ CsrfPassed
               /\ LimiterAnswer.allowed
               /\ validate(FormRecord(last.req.form)) = "ok"
               /\ Truthy(Get(last.req.form, "consent_given", Bool(FALSE)))

\* a call that passed the CSRF check and the rate limiter, was rejected
\* afterwards, and took a slot next to the ones already taken
C29_Witness ==
    /\ Called
    /\ CsrfPassed
    /\ last.result.success = FALSE
    /\ last.rl_before # EmptyDict
    /\ Len(DictGet(rate_limiter, hash_ip_address(last.req.ip_address))) =
           Len(DictGet(last.rl_before, hash_ip_address(last.req.ip_address))) + 1

----------------------------------------------------------------------------
(* backend/main.py: the routes of the FastAPI application                  *)

MaxAppCalls == 2

\* A path is the sequence of its segments: /api/health is <<"api", "health">>
\* and / is <<>>.  The routes in the order the module registers them: those
\* FastAPI(...) adds for its documentation, the two routers, the mount, and
\* the decorated functions from top to bottom.
Routes ==
    <<[kind |-> "exact", path |-> <<"openapi.json">>, methods |-> {"GET", "HEAD"},
       endpoint |-> "openapi"],
      [kind |-> "exact", path |-> <<"docs">>, methods |-> {"GET", "HEAD"},
       endpoint |-> "swagger_ui_html"],
      [kind |-> "exact", path |-> <<"docs", "oauth2-redirect">>,
       methods |-> {"GET", "HEAD"}, endpoint |-> "swagger_ui_redirect"],
      [kind |-> "exact", path |-> <<"redoc">>, methods |-> {"GET", "HEAD"},
       endpoint |-> "redoc_html"],
      [kind |-> "exact", path |-> <<"api", "contact", "submit">>, methods |-> {"POST"},
       endpoint |-> "submit_contact_form"],
      [kind |-> "exact", path |-> <<"api", "contact", "health">>,
       methods |-> {"GET", "HEAD"}, endpoint |-> "contact.health_check"],
      [kind |-> "exact", path |-> <<"api", "users">>, methods |-> {"GET", "HEAD"},
       endpoint |-> "get_users"],
      [kind |-> "exact", path |-> <<"api", "users">>, methods |-> {"POST"},
       endpoint |-> "create_user"],
      [kind |-> "mount", path |-> <<"static">>, methods |-> {}, endpoint |-> "static"],
      [kind |-> "exact", path |-> <<>>, methods |-> {"GET", "HEAD"},
       endpoint |-> "serve_index"],
      [kind |-> "exact", path |-> <<"contact.html">>, methods |-> {"GET", "HEAD"},
       endpoint |-> "serve_contact"],
      \* "/{file_path:path}": the path converter matches any text, "/" included
      [kind |-> "catch_all", path |-> <<>>, methods |-> {"GET", "HEAD"},
       endpoint |-> "serve_static_file"],
      [kind |-> "exact", path |-> <<"api", "health">>, methods |-> {"GET", "HEAD"},
       endpoint |-> "health_check"]>>

\* Route.matches / Mount.matches: "full", "partial" (the path matches, the
\* method does not) or "none"
Matches(route, method, path) ==
    LET path_matches ==
            CASE route.kind = "exact" -> path = route.path
              [] route.kind = "catch_all" -> TRUE
              [] route.kind = "mount" ->
                     /\ Len(path) >= Len(route.path)
                     /\ SubSeq(path, 1, Len(route.path)) = route.path
    IN  IF ~path_matches THEN "none"
        ELSE IF route.kind # "mount" /\ method \notin route.methods THEN "partial"
        ELSE "full"

\* Router.app: the first route that matches in full serves the request; when
\* none does, the first partial match answers 405; otherwise 404
Dispatch(method, path) ==
    LET full == {i \in 1..Len(Routes) : Matches(Routes[i], method, path) = "full"}
        partial == {i \in 1..Len(Routes) : Matches(Routes[i], method, path) = "partial"}
    IN  IF full # {} THEN [endpoint |-> Routes[SetMin(full)].endpoint, allowed |-> TRUE]
        ELSE IF partial # {}
        THEN [endpoint |-> Routes[SetMin(partial)].endpoint, allowed |-> FALSE]
        ELSE [endpoint |-> "not_found", allowed |-> FALSE]

allowed_files == {"style.css", "main.js", "contact.js", "index.html", "contact.html"}

\* serve_static_file: the file answered for a path, given the files that exist
serve_static_file(file_path, existing) ==
    LET filename == IF file_path = <<>> THEN "" ELSE file_path[Len(file_path)]
    IN  IF filename \in allowed_files /\ filename \in existing
        THEN [status |-> 200, file |-> filename]
        ELSE [status |-> 200, file |-> "index.html"]

health_check ==
    [status |-> 200,
     json |-> [status |-> "healthy", service |-> "corporate-website-api",
               version |-> "1.0.0"]]

\* what the client receives from the endpoint that serves the request; the
\* answers of the other endpoints are kept as the endpoint's name
Answer(route, path, existing) ==
    IF ~route.allowed
    THEN [status |-> IF route.endpoint = "not_found" THEN 404 ELSE 405]
    ELSE CASE route.endpoint = "health_check" -> health_check
           [] route.endpoint = "serve_static_file" -> serve_static_file(path, existing)
           [] route.endpoint = "serve_index" -> [status |-> 200, file |-> "index.html"]
           [] route.endpoint = "serve_contact" -> [status |-> 200, file |-> "contact.html"]
           [] OTHER -> [status |-> 200, endpoint |-> route.endpoint]

Methods == {"GET", "POST", "DELETE"}

Paths ==
    {<<>>, <<"contact.html">>, <<"style.css">>, <<"static", "style.css">>,
     <<"api", "health">>, <<"api", "contact", "health">>, <<"api", "contact", "submit">>,
     <<"api", "users">>, <<"docs">>, <<"no", "such", "page">>}

\* the static directory with or without its style sheet
Directories == {allowed_files, allowed_files \ {"style.css"}}

AppRequest(method, path, existing) ==
    \E route \in {Dispatch(method, path)} :
        /\ calls < MaxAppCalls
        /\ served' = Append(served, [method |-> method, path |-> path,
                                     endpoint |-> route.endpoint])
        /\ calls' = calls + 1
        /\ last' = [op |-> "request", method |-> method, path |-> path,
                    endpoint |-> route.endpoint,
                    response |-> Answer(route, path, existing)]
        /\ UNCHANGED <<now, rate_limiter, audit, store_calls, next_uuid, threads,
                       limiter_log>>

NextApp ==
    \E method \in Methods : \E path \in Paths : \E existing \in Directories :
        AppRequest(method, path, existing)

SpecApp == Init /\ [][NextApp]_vars

\* C30 (as claimed): a GET request to /api/health is served by health_check
\* and answered with the health document (status healthy, service, version).
C30_HealthCheckAnswersHealth ==
    (last.op = "request" /\ last.method = "GET" /\ last.path = <<"api", "health">>)
        => (last.endpoint = "health_check" /\ last.response = health_check)

====
